---- MODULE Spec2Model ----
(***************************************************************************)
(* Model of calculator_mcp_server.py: the six tools calculate,             *)
(* calculate_yoy, calculate_mom, calculate_percentage,                     *)
(* calculate_proportion and batch_calculate.                               *)
(*                                                                         *)
(* Python values are tagged records (t = "none" | "bool" | "num" | "str"   *)
(* | "list" | "dict").  Numbers are exact rationals num/den, standing for  *)
(* the binary64 values of the program; the dictionaries the tools return   *)
(* are TLA+ records, and the text of an f-string holding numbers is kept   *)
(* as the tuple of its pieces.  A call either returns a value or raises.   *)
(***************************************************************************)
EXTENDS Integers, Sequences, FiniteSets, TLC

VARIABLES pc, request, response, invoked, calculations

vars == <<pc, request, response, invoked, calculations>>

(***************************************************************************)
(* Bounds of the input universe.                                           *)
(***************************************************************************)
MaxNum  == 2    \* numeric arguments range over -MaxNum .. MaxNum
MaxLen  == 2    \* longest list handed to batch_calculate
MaxVals == 2    \* longest list handed to calculate_proportion

(***************************************************************************)
(* Python values and call outcomes.                                        *)
(***************************************************************************)
None       == [t |-> "none"]
Bool(b)    == [t |-> "bool", b |-> b]
Num(n, d)  == [t |-> "num", num |-> n, den |-> d]
PyInt(n)   == Num(n, 1)
Str(s)     == [t |-> "str", s |-> s]
List(l)    == [t |-> "list", l |-> l]
Dict(d)    == [t |-> "dict", d |-> d]

Return(v)      == [kind |-> "return", value |-> v]
Raise(exc, m)  == [kind |-> "raise", exc |-> exc, msg |-> m]

NoCall == [tool |-> "none"]

\* type(v).__name__
TypeName(v) ==
    CASE v.t = "none" -> "NoneType"
      [] v.t = "bool" -> "bool"
      [] v.t = "num"  -> IF v.den = 1 THEN "int" ELSE "float"
      [] v.t = "str"  -> "str"
      [] v.t = "list" -> "list"
      [] v.t = "dict" -> "dict"

\* str(v), as an f-string field renders it
PyStr(v) ==
    CASE v.t = "none" -> "None"
      [] v.t = "str"  -> v.s
      [] v.t = "bool" -> IF v.b THEN "True" ELSE "False"
      [] v.t = "num"  -> ToString(v.num)

\* bool(v), as `not v` and `x if v else y` test it
Truthy(v) ==
    CASE v.t = "none" -> FALSE
      [] v.t = "bool" -> v.b
      [] v.t = "num"  -> v.num # 0
      [] v.t = "str"  -> v.s # ""
      [] v.t = "list" -> Len(v.l) > 0
      [] v.t = "dict" -> DOMAIN v.d # {}

\* v == 0
PyEqZero(v) ==
    \/ v.t = "num" /\ v.num = 0
    \/ v.t = "bool" /\ ~v.b

(***************************************************************************)
(* Exact rational arithmetic.                                              *)
(***************************************************************************)
Abs(n) == IF n < 0 THEN -n ELSE n

RECURSIVE GCD(_, _)
GCD(a, b) == IF b = 0 THEN a ELSE GCD(b, a % b)

\* the number n/d (d # 0) in lowest terms with a positive denominator
Norm(n, d) ==
    LET g == GCD(Abs(n), Abs(d))
        s == IF d < 0 THEN -1 ELSE 1
    IN  Num((s * n) \div g, (s * d) \div g)

RAdd(x, y) == Norm(x.num * y.den + y.num * x.den, x.den * y.den)
RSub(x, y) == Norm(x.num * y.den - y.num * x.den, x.den * y.den)
RMul(x, y) == Norm(x.num * y.num, x.den * y.den)
RDiv(x, y) == Norm(x.num * y.den, x.den * y.num)
RAbs(x)    == Num(Abs(x.num), x.den)

Pow10(k) == IF k = 2 THEN 100 ELSE 10000

\* round(x, k) and format(x, ".kf"): nearest multiple of 10^-k, ties to even
Round(x, k) ==
    LET n == x.num * Pow10(k)
        q == n \div x.den
        r == n % x.den
        up == \/ 2 * r > x.den
              \/ 2 * r = x.den /\ q % 2 = 1
    IN  Norm(IF up THEN q + 1 ELSE q, Pow10(k))

\* a binary operator applied to two Python values
TypeErr(sym, a, b) ==
    Raise("TypeError", "unsupported operand type(s) for " \o sym \o ": '"
                       \o TypeName(a) \o "' and '" \o TypeName(b) \o "'")

PyAdd(a, b) == IF a.t = "num" /\ b.t = "num" THEN Return(RAdd(a, b))
               ELSE TypeErr("+", a, b)
PySub(a, b) == IF a.t = "num" /\ b.t = "num" THEN Return(RSub(a, b))
               ELSE TypeErr("-", a, b)
PyMul(a, b) == IF a.t = "num" /\ b.t = "num" THEN Return(RMul(a, b))
               ELSE TypeErr("*", a, b)
PyDiv(a, b) == IF a.t = "num" /\ b.t = "num"
               THEN IF b.num = 0
                    THEN Raise("ZeroDivisionError", "division by zero")
                    ELSE Return(RDiv(a, b))
               ELSE TypeErr("/", a, b)
PyAbs(a)    == IF a.t = "num" THEN Return(RAbs(a))
               ELSE Raise("TypeError", "bad operand type for abs(): '"
                                       \o TypeName(a) \o "'")

Hundred == PyInt(100)

(***************************************************************************)
(* str.lower(), tabulated over the operation names of the universe.        *)
(***************************************************************************)
OpStrings == {"add", "subtract", "multiply", "divide",
              "ADD", "Subtract", "MULTIPLY", "Divide", "DIVIDE",
              "mod", "MOD", "Power"}

lower(s) ==
    CASE s = "ADD"      -> "add"
      [] s = "Subtract" -> "subtract"
      [] s = "MULTIPLY" -> "multiply"
      [] s = "Divide"   -> "divide"
      [] s = "DIVIDE"   -> "divide"
      [] s = "MOD"      -> "mod"
      [] s = "Power"    -> "power"
      [] OTHER          -> s

(***************************************************************************)
(* calculate.  The multiplication and division signs of the source are     *)
(* written "x" and "/".                                                    *)
(***************************************************************************)
get_operator_symbol(operation) ==
    CASE operation = "add"      -> "+"
      [] operation = "subtract" -> "-"
      [] operation = "multiply" -> "x"
      [] operation = "divide"   -> "/"
      [] OTHER                  -> operation

\* the success payload when it also carries an empty `error`
calculate_success_error_none(operation, a, b, result) ==
    Return([operation |-> operation, a |-> a, b |-> b, result |-> result,
            formatted |-> <<a, get_operator_symbol(operation), b, "=", result>>,
            error |-> None])

calculate_success(operation, a, b, result) ==
    Return([operation |-> operation, a |-> a, b |-> b, result |-> result,
            formatted |-> <<a, get_operator_symbol(operation), b, "=", result>>])

\* calculate without the test of b before the division
calculate_unchecked(operation0, a, b) ==
    IF operation0.t # "str"
    THEN Raise("AttributeError", "'" \o TypeName(operation0)
                                 \o "' object has no attribute 'lower'")
    ELSE
    LET operation == lower(operation0.s)
        computed ==
            CASE operation = "add"      -> PyAdd(a, b)
              [] operation = "subtract" -> PySub(a, b)
              [] operation = "multiply" -> PyMul(a, b)
              [] operation = "divide"   -> PyDiv(a, b)
    IN  IF operation \in {"add", "subtract", "multiply", "divide"}
        THEN IF computed.kind = "raise" THEN computed
             ELSE calculate_success(operation, a, b, computed.value)
        ELSE Return([error |-> "Unsupported operation: " \o operation])

calculate(operation0, a, b) ==
    IF operation0.t # "str"
    THEN Raise("AttributeError", "'" \o TypeName(operation0)
                                 \o "' object has no attribute 'lower'")
    ELSE
    LET operation == lower(operation0.s)
        computed ==
            CASE operation = "add"      -> PyAdd(a, b)
              [] operation = "subtract" -> PySub(a, b)
              [] operation = "multiply" -> PyMul(a, b)
              [] operation = "divide"   -> PyDiv(a, b)
    IN  IF operation \in {"add", "subtract", "multiply"}
        THEN IF computed.kind = "raise" THEN computed
             ELSE calculate_success(operation, a, b, computed.value)
        ELSE IF operation = "divide"
        THEN IF PyEqZero(b)
             THEN Return([error |-> "Division by zero is not allowed"])
             ELSE IF computed.kind = "raise" THEN computed
             ELSE calculate_success(operation, a, b, computed.value)
        ELSE Return([error |-> "Unsupported operation: " \o operation])

(***************************************************************************)
(* calculate_yoy, calculate_mom                                            *)
(***************************************************************************)
\* direction with `>=` written for `>`
direction_ge(change) ==
    IF change.num >= 0 THEN "increase"
    ELSE IF change.num < 0 THEN "decrease"
    ELSE "no change"

direction(change) ==
    IF change.num > 0 THEN "increase"
    ELSE IF change.num < 0 THEN "decrease"
    ELSE "no change"

\* the growth value after `if not as_percentage: growth = growth / 100`
growth_value(change, base, as_percentage) ==
    LET pct == RMul(RDiv(change, base), Hundred)
    IN  IF ~Truthy(as_percentage) THEN RDiv(pct, Hundred) ELSE pct

calculate_yoy(current_value, previous_year_value, as_percentage) ==
    IF PyEqZero(previous_year_value)
    THEN Return([error |-> "Previous year value cannot be zero"])
    ELSE
    LET yoy_change == PySub(current_value, previous_year_value)
    IN  IF yoy_change.kind = "raise" THEN yoy_change
        ELSE
        LET yoy_growth == growth_value(yoy_change.value,
                                       RAbs(previous_year_value), as_percentage)
        IN  Return([current_value |-> current_value,
                    previous_year_value |-> previous_year_value,
                    absolute_change |-> yoy_change.value,
                    yoy_growth |-> IF Truthy(as_percentage)
                                   THEN Round(yoy_growth, 2) ELSE yoy_growth,
                    formatted |-> <<"YoY: ", Round(yoy_growth, 2),
                                    IF Truthy(as_percentage) THEN "%" ELSE "">>,
                    direction |-> direction(yoy_change.value)])

calculate_mom(current_value, previous_month_value, as_percentage) ==
    IF PyEqZero(previous_month_value)
    THEN Return([error |-> "Previous month value cannot be zero"])
    ELSE
    LET mom_change == PySub(current_value, previous_month_value)
    IN  IF mom_change.kind = "raise" THEN mom_change
        ELSE
        LET mom_growth == growth_value(mom_change.value,
                                       RAbs(previous_month_value), as_percentage)
        IN  Return([current_value |-> current_value,
                    previous_month_value |-> previous_month_value,
                    absolute_change |-> mom_change.value,
                    mom_growth |-> IF Truthy(as_percentage)
                                   THEN Round(mom_growth, 2) ELSE mom_growth,
                    formatted |-> <<"MoM: ", Round(mom_growth, 2),
                                    IF Truthy(as_percentage) THEN "%" ELSE "">>,
                    direction |-> direction(mom_change.value)])

(***************************************************************************)
(* calculate_percentage                                                    *)
(***************************************************************************)
calculate_percentage(part, whole, as_percentage) ==
    IF PyEqZero(whole)
    THEN Return([error |-> "Whole value cannot be zero"])
    ELSE
    LET absw == PyAbs(whole)
    IN  IF absw.kind = "raise" THEN absw
        ELSE
        LET quot == PyDiv(part, absw.value)
        IN  IF quot.kind = "raise" THEN quot
            ELSE
            LET percentage == growth_value(part, absw.value, as_percentage)
            IN  Return([part |-> part,
                        whole |-> whole,
                        percentage |-> IF Truthy(as_percentage)
                                       THEN Round(percentage, 2) ELSE percentage,
                        formatted |-> <<Round(percentage, 2),
                                        IF Truthy(as_percentage) THEN "%" ELSE "">>,
                        ratio |-> RDiv(part, whole)])

(***************************************************************************)
(* calculate_proportion                                                    *)
(***************************************************************************)
\* sum(l): 0 + l[1] + ... + l[n], left to right
RECURSIVE SumFrom(_, _, _)
SumFrom(acc, l, i) ==
    IF i > Len(l) THEN Return(acc)
    ELSE LET s == PyAdd(acc, l[i])
         IN  IF s.kind = "raise" THEN s ELSE SumFrom(s.value, l, i + 1)

sum(l) == SumFrom(PyInt(0), l, 1)

calculate_proportion(values, normalize) ==
    IF ~Truthy(values)
    THEN Return([error |-> "Values list cannot be empty"])
    ELSE
    LET total == sum(values.l)
    IN  IF total.kind = "raise" THEN total
        ELSE IF PyEqZero(total.value)
        THEN Return([error |-> "Sum of values cannot be zero"])
        ELSE
        LET n      == Len(values.l)
            first  == [i \in 1..n |-> RDiv(values.l[i], total.value)]
            second == [i \in 1..n |-> RDiv(first[i], sum(first).value)]
            proportions == IF Truthy(normalize) THEN second ELSE first
            percentages == [i \in 1..n |-> RMul(proportions[i], Hundred)]
        IN  Return([values |-> values,
                    total |-> total.value,
                    proportions |-> [i \in 1..n |-> Round(proportions[i], 4)],
                    percentages |-> [i \in 1..n |-> Round(percentages[i], 2)],
                    formatted |-> [i \in 1..n |->
                                    <<"Value ", i, values.l[i],
                                      Round(percentages[i], 2), "%">>]])

(***************************************************************************)
(* batch_calculate                                                         *)
(***************************************************************************)
\* calc[key]
Subscript(calc, key) ==
    IF key \in DOMAIN calc.d THEN Return(calc.d[key])
    ELSE Raise("KeyError", "'" \o key \o "'")

\* calc.get(key, default)
Get(calc, key, default) ==
    IF key \in DOMAIN calc.d THEN calc.d[key] ELSE default

\* the keyword arguments of a handler call are evaluated left to right: the
\* first required key that is absent raises, and the handler is not entered
MissingKeys(calc, keys) == {i \in 1..Len(keys) : keys[i] \notin DOMAIN calc.d}

FirstMissing(calc, keys) ==
    LET m == MissingKeys(calc, keys)
    IN  keys[CHOOSE i \in m : \A j \in m : i <= j]

Dispatch(calc, keys, handler, outcome) ==
    IF MissingKeys(calc, keys) # {}
    THEN [outcome |-> Subscript(calc, FirstMissing(calc, keys)), handler |-> "none"]
    ELSE [outcome |-> outcome, handler |-> handler]

\* the body of the try statement: the outcome of the branch taken and the
\* handler it entered
batch_dispatch(calc) ==
    LET calc_type == Get(calc, "type", None)
    IN  CASE calc_type = Str("arithmetic") ->
               Dispatch(calc, <<"operation", "a", "b">>, "calculate",
                        calculate(calc.d["operation"], calc.d["a"], calc.d["b"]))
          [] calc_type = Str("yoy") ->
               Dispatch(calc, <<"current_value", "previous_year_value">>,
                        "calculate_yoy",
                        calculate_yoy(calc.d["current_value"],
                                      calc.d["previous_year_value"],
                                      Get(calc, "as_percentage", Bool(TRUE))))
          [] calc_type = Str("mom") ->
               Dispatch(calc, <<"current_value", "previous_month_value">>,
                        "calculate_mom",
                        calculate_mom(calc.d["current_value"],
                                      calc.d["previous_month_value"],
                                      Get(calc, "as_percentage", Bool(TRUE))))
          [] calc_type = Str("percentage") ->
               Dispatch(calc, <<"part", "whole">>, "calculate_percentage",
                        calculate_percentage(calc.d["part"], calc.d["whole"],
                                             Get(calc, "as_percentage", Bool(TRUE))))
          [] calc_type = Str("proportion") ->
               Dispatch(calc, <<"values">>, "calculate_proportion",
                        calculate_proportion(calc.d["values"],
                                             Get(calc, "normalize", Bool(FALSE))))
          [] OTHER ->
               [outcome |-> Return([error |-> "Unknown calculation type: "
                                              \o PyStr(calc_type)]),
                handler |-> "none"]

\* the entry when the item's discriminator is removed with calc.pop("type")
batch_entry_pop(calc) ==
    LET d == batch_dispatch(calc)
        popped == Dict([k \in (DOMAIN calc.d) \ {"type"} |-> calc.d[k]])
    IN  IF d.outcome.kind = "return"
        THEN [calculation |-> popped, result |-> d.outcome.value]
        ELSE [calculation |-> popped, error |-> d.outcome.msg]

\* the entry one iteration appends to results
batch_entry(calc) ==
    LET d == batch_dispatch(calc)
    IN  IF d.outcome.kind = "return"
        THEN [calculation |-> calc, result |-> d.outcome.value]
        ELSE [calculation |-> calc, error |-> d.outcome.msg]

\* the loop when the except clause appends nothing
RECURSIVE batch_loop_skip_faults(_, _, _, _)
batch_loop_skip_faults(calcs, i, results, handlers) ==
    IF i > Len(calcs)
    THEN [kind |-> "return", results |-> results, handlers |-> handlers]
    ELSE IF calcs[i].t # "dict"
    THEN [kind |-> "raise", exc |-> "AttributeError",
          msg |-> "'" \o TypeName(calcs[i]) \o "' object has no attribute 'get'",
          results |-> results, handlers |-> handlers]
    ELSE batch_loop_skip_faults(calcs, i + 1,
             IF batch_dispatch(calcs[i]).outcome.kind = "raise" THEN results
             ELSE Append(results, batch_entry(calcs[i])),
             Append(handlers, batch_dispatch(calcs[i]).handler))

\* the for loop from item i on: it ends normally, or calc.get raises on an
\* item that is not a dict, outside the try statement
RECURSIVE batch_loop(_, _, _, _)
batch_loop(calcs, i, results, handlers) ==
    IF i > Len(calcs)
    THEN [kind |-> "return", results |-> results, handlers |-> handlers]
    ELSE IF calcs[i].t # "dict"
    THEN [kind |-> "raise", exc |-> "AttributeError",
          msg |-> "'" \o TypeName(calcs[i]) \o "' object has no attribute 'get'",
          results |-> results, handlers |-> handlers]
    ELSE batch_loop(calcs, i + 1,
                    Append(results, batch_entry(calcs[i])),
                    Append(handlers, batch_dispatch(calcs[i]).handler))

\* r.get("result", {})
EntryResult(r) == IF "result" \in DOMAIN r THEN r.result ELSE [k \in {} |-> None]

\* the count when every entry is counted
successful_all(results) == Len(results)

successful(results) ==
    Cardinality({i \in 1..Len(results) : "error" \notin DOMAIN EntryResult(results[i])})

batch_calculate(calcs) ==
    LET loop == batch_loop(calcs, 1, <<>>, <<>>)
    IN  IF loop.kind = "raise" THEN Raise(loop.exc, loop.msg)
        ELSE Return([total_calculations |-> Len(calcs),
                     successful |-> successful(loop.results),
                     results |-> loop.results])

(***************************************************************************)
(* The arguments a caller may pass.  A field that should hold a number, a  *)
(* string or a list may hold None instead; an item of a batch may lack any *)
(* of its keys, or not be a dict.                                          *)
(***************************************************************************)
SeqsUpTo(S, n) == UNION {[1..k -> S] : k \in 0..n}

Nums      == {PyInt(n) : n \in -MaxNum..MaxNum}
NumArgs   == Nums \cup {None}
OpArgs    == {Str(o) : o \in OpStrings} \cup {None}
FlagArgs  == {Bool(TRUE), Bool(FALSE), None}
ValueArgs == {List(l) : l \in SeqsUpTo(Nums, MaxVals)}
                 \cup {List(<<None>>), List(<<PyInt(1), None>>), None}

Without(d, key) == [k \in (DOMAIN d) \ {key} |-> d[k]]

ArithmeticItem(o, a, b) ==
    [type |-> Str("arithmetic"), operation |-> o, a |-> a, b |-> b]
YoyItem(c, p, f) ==
    [type |-> Str("yoy"), current_value |-> c, previous_year_value |-> p,
     as_percentage |-> f]
MomItem(c, p, f) ==
    [type |-> Str("mom"), current_value |-> c, previous_month_value |-> p,
     as_percentage |-> f]
PercentageItem(p, w, f) ==
    [type |-> Str("percentage"), part |-> p, whole |-> w, as_percentage |-> f]
ProportionItem(v, n) ==
    [type |-> Str("proportion"), values |-> v, normalize |-> n]

FullItems ==
    {ArithmeticItem(Str(o), PyInt(MaxNum), b) :
         o \in {"add", "Divide", "MOD"}, b \in {PyInt(0), PyInt(1)}}
    \cup {ArithmeticItem(Str("add"), None, PyInt(1))}
    \cup {YoyItem(PyInt(MaxNum), p, Bool(FALSE)) : p \in {PyInt(0), PyInt(1), None}}
    \cup {MomItem(PyInt(MaxNum), p, Bool(FALSE)) : p \in {PyInt(0), PyInt(-1), None}}
    \cup {PercentageItem(PyInt(1), w, Bool(FALSE)) :
             w \in {PyInt(0), PyInt(MaxNum), None}}
    \cup {ProportionItem(List(l), Bool(TRUE)) :
             l \in {<<>>, <<PyInt(1), PyInt(MaxNum)>>, <<PyInt(1), PyInt(-1)>>}}

PartialItems ==
    {Without(ArithmeticItem(Str("add"), PyInt(1), PyInt(MaxNum)), k) :
         k \in {"operation", "b"}}
    \cup {Without(YoyItem(PyInt(MaxNum), PyInt(1), Bool(TRUE)), k) :
             k \in {"previous_year_value", "as_percentage"}}
    \cup {Without(MomItem(PyInt(MaxNum), PyInt(1), Bool(TRUE)), k) :
             k \in {"current_value", "as_percentage"}}
    \cup {Without(PercentageItem(PyInt(1), PyInt(MaxNum), Bool(TRUE)), k) :
             k \in {"whole", "as_percentage"}}
    \cup {Without(ProportionItem(List(<<PyInt(1), PyInt(MaxNum)>>), Bool(TRUE)), k) :
             k \in {"values", "normalize"}}

OtherItems ==
    {[type |-> Str("unknown")], [k \in {} |-> None], [a |-> PyInt(1)]}

BatchItems ==
    {Dict(d) : d \in FullItems \cup PartialItems \cup OtherItems}
    \cup {None, PyInt(MaxNum)}

BatchArgs == SeqsUpTo(BatchItems, MaxLen)

(***************************************************************************)
(* One tool call per behaviour: the server is stateless, so calls do not   *)
(* interact.  request is the call with its arguments as passed, response   *)
(* its outcome, invoked the handlers entered (for a batch: per item, or    *)
(* "none"), calculations the caller's list as batch_calculate leaves it.   *)
(***************************************************************************)
Init ==
    /\ pc = "idle"
    /\ request = NoCall
    /\ response = NoCall
    /\ invoked = <<>>
    /\ calculations = <<>>

Calculate ==
    /\ pc = "idle"
    /\ \E o \in OpArgs, a \in NumArgs, b \in NumArgs :
         /\ request' = [tool |-> "calculate", operation |-> o, a |-> a, b |-> b]
         /\ response' = calculate(o, a, b)
    /\ invoked' = <<"calculate">>
    /\ pc' = "done"
    /\ UNCHANGED calculations

CalculateYoy ==
    /\ pc = "idle"
    /\ \E c \in NumArgs, p \in NumArgs, f \in FlagArgs :
         /\ request' = [tool |-> "calculate_yoy", current |-> c, previous |-> p,
                        as_percentage |-> f]
         /\ response' = calculate_yoy(c, p, f)
    /\ invoked' = <<"calculate_yoy">>
    /\ pc' = "done"
    /\ UNCHANGED calculations

CalculateMom ==
    /\ pc = "idle"
    /\ \E c \in NumArgs, p \in NumArgs, f \in FlagArgs :
         /\ request' = [tool |-> "calculate_mom", current |-> c, previous |-> p,
                        as_percentage |-> f]
         /\ response' = calculate_mom(c, p, f)
    /\ invoked' = <<"calculate_mom">>
    /\ pc' = "done"
    /\ UNCHANGED calculations

CalculatePercentage ==
    /\ pc = "idle"
    /\ \E p \in NumArgs, w \in NumArgs, f \in FlagArgs :
         /\ request' = [tool |-> "calculate_percentage", part |-> p, whole |-> w,
                        as_percentage |-> f]
         /\ response' = calculate_percentage(p, w, f)
    /\ invoked' = <<"calculate_percentage">>
    /\ pc' = "done"
    /\ UNCHANGED calculations

CalculateProportion ==
    /\ pc = "idle"
    /\ \E v \in ValueArgs, n \in FlagArgs :
         /\ request' = [tool |-> "calculate_proportion", values |-> v,
                        normalize |-> n]
         /\ response' = calculate_proportion(v, n)
    /\ invoked' = <<"calculate_proportion">>
    /\ pc' = "done"
    /\ UNCHANGED calculations

BatchCalculate ==
    /\ pc = "idle"
    /\ \E calcs \in BatchArgs :
         /\ request' = [tool |-> "batch_calculate", calculations |-> calcs]
         /\ response' = batch_calculate(calcs)
         /\ invoked' = batch_loop(calcs, 1, <<>>, <<>>).handlers
         /\ calculations' = calcs
    /\ pc' = "done"

Next ==
    \/ Calculate
    \/ CalculateYoy
    \/ CalculateMom
    \/ CalculatePercentage
    \/ CalculateProportion
    \/ BatchCalculate

Spec == Init /\ [][Next]_vars

TypeOK ==
    /\ pc \in {"idle", "done"}
    /\ pc = "done" => response.kind \in {"return", "raise"}

(***************************************************************************)
(* Vocabulary of the properties.                                           *)
(***************************************************************************)
Kinds == {"arithmetic", "yoy", "mom", "percentage", "proportion"}

IsCall(tool) == pc = "done" /\ request.tool = tool
IsBatch      == IsCall("batch_calculate")
Returned     == response.kind = "return"

\* a result dict is a failure payload when it is the single message `error`,
\* a success payload when it carries the computed fields
IsFailurePayload(r) == DOMAIN r = {"error"}
IsSuccessPayload(r) == "formatted" \in DOMAIN r /\ "error" \notin DOMAIN r

UnknownKind(calc) ==
    calc.t = "dict" /\ Get(calc, "type", None) \notin {Str(k) : k \in Kinds}

\* the item is a dict whose processing ends in a success payload
ItemSucceeds(calc) ==
    /\ calc.t = "dict"
    /\ batch_dispatch(calc).outcome.kind = "return"
    /\ IsSuccessPayload(batch_dispatch(calc).outcome.value)

\* the item is a dict whose processing raises inside the try statement
ItemFaults(calc) ==
    calc.t = "dict" /\ batch_dispatch(calc).outcome.kind = "raise"

RemoveAt(q, i) == SubSeq(q, 1, i - 1) \o SubSeq(q, i + 1, Len(q))

(***************************************************************************)
(* C1: `successful` is the number of items whose outcome is a success      *)
(* payload; an item with a failure payload, of unknown kind, or whose      *)
(* processing raised is not counted.                                       *)
(***************************************************************************)
C1_SuccessfulCountsSuccessPayloads ==
    IsBatch /\ Returned =>
        response.value.successful =
            Cardinality({i \in 1..Len(request.calculations) :
                            ItemSucceeds(request.calculations[i])})

(***************************************************************************)
(* C2: batch_calculate never raises to its caller, whatever the items are. *)
(***************************************************************************)
C2_BatchNeverRaises ==
    IsBatch => Returned

(***************************************************************************)
(* C3: when item i fails (unknown kind, handler failure, or a fault, which *)
(* leaves an item-level error record with the fault's message), every      *)
(* later item j is still processed and gets the entry it gets in the batch *)
(* without item i.                                                         *)
(***************************************************************************)
C3_FailureIsolation ==
    IsBatch =>
        \A i \in 1..Len(request.calculations) :
            ~ItemSucceeds(request.calculations[i]) =>
                \A j \in (i + 1)..Len(request.calculations) :
                    LET other == batch_calculate(RemoveAt(request.calculations, i))
                    IN  /\ Returned
                        /\ other.kind = "return"
                        /\ response.value.results[j] = other.value.results[j - 1]

(***************************************************************************)
(* C4: in the outcome of batch_calculate, the length of results, the count *)
(* total_calculations and the length of the input are equal.               *)
(***************************************************************************)
C4_LengthsAgree ==
    IsBatch /\ Returned =>
        /\ Len(response.value.results) = response.value.total_calculations
        /\ response.value.total_calculations = Len(request.calculations)

C4_Witness ==
    /\ IsBatch /\ Returned
    /\ Len(request.calculations) = 2
    /\ ItemFaults(request.calculations[1])
    /\ UnknownKind(request.calculations[2])
    /\ Len(response.value.results) = 2

(***************************************************************************)
(* C5: results[i].calculation is the i-th request as it was on entry, for  *)
(* every i, and the caller's list is left as it was passed.                *)
(***************************************************************************)
C5_OrderPreservingEcho ==
    IsBatch =>
        /\ calculations = request.calculations
        /\ Returned =>
               /\ Len(response.value.results) = Len(request.calculations)
               /\ \A i \in 1..Len(request.calculations) :
                      response.value.results[i].calculation = request.calculations[i]

C5_Witness ==
    /\ IsBatch /\ Returned
    /\ Len(request.calculations) = 2
    /\ request.calculations[1] # request.calculations[2]
    /\ ItemFaults(request.calculations[1])
    /\ ItemSucceeds(request.calculations[2])
    /\ response.value.results[2].calculation = request.calculations[2]

(***************************************************************************)
(* C6, as stated: every entry of results is {calculation, result} and its  *)
(* result is exactly one of a success payload and a failure payload, also  *)
(* for an item whose processing raised.                                    *)
(***************************************************************************)
C6_EveryEntryHasResult ==
    IsBatch /\ Returned =>
        \A i \in 1..Len(response.value.results) :
            LET e == response.value.results[i]
            IN  /\ DOMAIN e = {"calculation", "result"}
                /\ IsSuccessPayload(e.result) # IsFailurePayload(e.result)

(***************************************************************************)
(* C6, amended: every entry of results holds `calculation` and exactly one *)
(* of `result` and `error`.  An item whose processing raised has `error`,  *)
(* the fault's message, and no `result`; every other item has `result`,    *)
(* which is exactly one of a success payload and a failure payload.        *)
(***************************************************************************)
C6_EntryShape ==
    IsBatch /\ Returned =>
        \A i \in 1..Len(response.value.results) :
            LET e == response.value.results[i]
                c == request.calculations[i]
            IN  IF ItemFaults(c)
                THEN /\ DOMAIN e = {"calculation", "error"}
                     /\ e.error = batch_dispatch(c).outcome.msg
                ELSE /\ DOMAIN e = {"calculation", "result"}
                     /\ IsSuccessPayload(e.result) # IsFailurePayload(e.result)

C6_Witness ==
    /\ IsBatch /\ Returned
    /\ Len(response.value.results) = 2
    /\ DOMAIN response.value.results[1] = {"calculation", "error"}
    /\ response.value.results[1].error = "'operation'"
    /\ DOMAIN response.value.results[2] = {"calculation", "result"}
    /\ IsSuccessPayload(response.value.results[2].result)

(***************************************************************************)
(* C7: an item whose discriminator is none of the five kinds gets the      *)
(* failure payload "Unknown calculation type: {kind}", enters no handler,  *)
(* and is not counted in `successful`; the batch of the single item of     *)
(* kind "unknown" has total_calculations 1 and successful 0.               *)
(***************************************************************************)
C7_UnknownKind ==
    IsBatch =>
        /\ \A i \in 1..Len(invoked) :
               UnknownKind(request.calculations[i]) => invoked[i] = "none"
        /\ Returned =>
               LET unknown == {i \in 1..Len(request.calculations) :
                                 UnknownKind(request.calculations[i])}
               IN  /\ \A i \in unknown :
                          response.value.results[i] =
                              [calculation |-> request.calculations[i],
                               result |-> [error |-> "Unknown calculation type: "
                                   \o PyStr(Get(request.calculations[i], "type", None))]]
                   /\ response.value.successful
                          <= Len(request.calculations) - Cardinality(unknown)
        /\ request.calculations = <<Dict([type |-> Str("unknown")])>> =>
               response = Return(
                   [total_calculations |-> 1, successful |-> 0,
                    results |-> <<[calculation |-> Dict([type |-> Str("unknown")]),
                                   result |-> [error |->
                                       "Unknown calculation type: unknown"]]>>])

C7_Witness ==
    /\ IsBatch /\ Returned
    /\ Len(request.calculations) = 2
    /\ request.calculations[1] = Dict([type |-> Str("unknown")])
    /\ ItemSucceeds(request.calculations[2])
    /\ response.value.successful = 1
    /\ invoked = <<"none", "calculate">>

(***************************************************************************)
(* C8: calculate matches the operation name case-insensitively, and for a  *)
(* name matching none of the four the result is the failure                *)
(* "Unsupported operation: {operation}" with the caller's string as given. *)
(***************************************************************************)
Spellings(op) ==
    CASE op = "add"      -> {"add", "ADD"}
      [] op = "subtract" -> {"subtract", "Subtract"}
      [] op = "multiply" -> {"multiply", "MULTIPLY"}
      [] op = "divide"   -> {"divide", "Divide", "DIVIDE"}

Supported == UNION {Spellings(op) : op \in {"add", "subtract", "multiply", "divide"}}

C8_UnsupportedEchoesOriginal ==
    IsCall("calculate") /\ request.operation.t = "str" =>
        /\ \A op \in {"add", "subtract", "multiply", "divide"} :
               request.operation.s \in Spellings(op) /\ Returned
               /\ IsSuccessPayload(response.value) =>
                   response.value.operation = op
        /\ request.operation.s \notin Supported =>
               response = Return([error |-> "Unsupported operation: "
                                            \o request.operation.s])

(***************************************************************************)
(* C9: calculate with divide, in any letter case, and b == 0 returns the   *)
(* failure "Division by zero is not allowed" for every a: the division is  *)
(* not executed, so nothing is computed and nothing raises.                *)
(***************************************************************************)
C9_DivideByZero ==
    IsCall("calculate") /\ request.operation.t = "str"
    /\ request.operation.s \in Spellings("divide") /\ PyEqZero(request.b) =>
        response = Return([error |-> "Division by zero is not allowed"])

C9_Witness ==
    /\ IsCall("calculate")
    /\ request.operation = Str("DIVIDE")
    /\ request.a = PyInt(1)
    /\ request.b = PyInt(0)
    /\ response = Return([error |-> "Division by zero is not allowed"])

(***************************************************************************)
(* C10: calculate_yoy and calculate_mom, for either as_percentage: with    *)
(* previous == 0 the result is the fixed failure; otherwise                *)
(* absolute_change is current - previous and direction is "increase",      *)
(* "decrease" or "no change" as current is above, below or equal to        *)
(* previous, whatever the sign of previous.                                *)
(***************************************************************************)
ZeroMessage(tool) ==
    IF tool = "calculate_yoy" THEN "Previous year value cannot be zero"
    ELSE "Previous month value cannot be zero"

C10_GrowthDirection ==
    \A tool \in {"calculate_yoy", "calculate_mom"} :
        IsCall(tool) =>
            /\ PyEqZero(request.previous) =>
                   response = Return([error |-> ZeroMessage(tool)])
            /\ request.previous.t = "num" /\ request.previous.num # 0
               /\ request.current.t = "num" =>
                   /\ Returned
                   /\ IsSuccessPayload(response.value)
                   /\ response.value.absolute_change
                          = PyInt(request.current.num - request.previous.num)
                   /\ response.value.direction =
                          (IF request.current.num > request.previous.num
                           THEN "increase"
                           ELSE IF request.current.num < request.previous.num
                           THEN "decrease"
                           ELSE "no change")

C10_Witness ==
    /\ IsCall("calculate_mom")
    /\ request.previous = PyInt(-2)
    /\ request.current = PyInt(-1)
    /\ request.as_percentage = Bool(FALSE)
    /\ Returned
    /\ response.value.direction = "increase"
    /\ response.value.absolute_change = PyInt(1)

====
